---------------------------- MODULE Spec2Model ----------------------------
(***************************************************************************)
(* A model of the knowledge base of src/minesweeper.py: class Sentence     *)
(* (a set of cells and a count of the mines among them) and class          *)
(* MinesweeperAI (moves_made, mines, safes, knowledge) with add_knowledge, *)
(* its closure loop, make_safe_move and make_random_move.                  *)
(*                                                                         *)
(* A call of add_knowledge is modelled step by step: the variable pc is    *)
(* the position of the call in the code, and the sets that the code walks  *)
(* with "for x in <set>" are walked in any order (todo is what is left).   *)
(* The per-sentence fields Sentence.mines and Sentence.safe are written by *)
(* the code but never read, and Sentence.__eq__ ignores them; they are not *)
(* part of the model.                                                      *)
(***************************************************************************)
EXTENDS Integers, Sequences, FiniteSets

\* ------------------------------------------------------------------ bounds
Height == 2          \* MinesweeperAI(height, width): the grid of the model
Width == 3
MaxReveal == 4       \* add_knowledge calls of a caller that reports a board
MaxObserve == 2      \* add_knowledge calls of an arbitrary caller
MaxProbe == 3        \* add_knowledge calls of an arbitrary caller whose counts
                     \* are neither 0 nor MaxCount
MaxCount == 3        \* largest count an arbitrary caller reports
CountCap == 3        \* a closure pass is taken only while |count| <= CountCap
MaxPass == 12        \* passes of the closure loop WholeCall follows

VARIABLES
    board,        \* Minesweeper.mines: the mine placement (consistent feed only)
    moves_made,   \* MinesweeperAI.moves_made
    mines,        \* MinesweeperAI.mines
    safes,        \* MinesweeperAI.safes
    knowledge,    \* MinesweeperAI.knowledge: a list of sentences
    pc,           \* position of the running add_knowledge call, "idle" if none
    cell,         \* add_knowledge: the parameter cell
    count,        \* add_knowledge: the local count
    neighbors,    \* add_knowledge: the local set neighbors
    idx,          \* closure loop: index of `sentence` in "for sentence in knowledge"
    todo,         \* cells of the set being walked that are still to be visited
    move,         \* what the last make_safe_move or make_random_move returned
    asked,        \* which of the two returned it, "none" since the last add_knowledge
    calls,        \* number of add_knowledge calls so far
    reported,     \* add_knowledge: the parameter count as the caller passed it
    alt,          \* mines, safes and knowledge of an engine given the same calls
                  \* whose add_knowledge ends with the loop of lines 248-287
    expected,     \* the state in which the call returns when every set is
                  \* broadcast at once (WholeCall)
    forced        \* the cells the sentences appended in this call settled when
                  \* they were appended: [safe |-> ..., mine |-> ...]

vars == <<board, moves_made, mines, safes, knowledge, pc, cell, count,
          neighbors, idx, todo, move, asked, calls, reported, alt, expected, forced>>

\* what only the first step of add_knowledge sets
atcall == <<reported, alt, expected>>

None == <<>>

Cells == (0 .. Height - 1) \X (0 .. Width - 1)

\* The cells a caller may pass: the grid and the ring of cells around it.
InputCells == (-1 .. Height) \X (-1 .. Width)

\* ---------------------------------------------------------------- Sentence
Sentence(cells, n) == [cells |-> cells, count |-> n]

\* a slip in __eq__: the counts are not compared
SentenceEq_CellsOnly(a, b) == a.cells = b.cells

\* Sentence.__eq__
SentenceEq(a, b) == a.cells = b.cells /\ a.count = b.count

\* a slip in known_mines: >= in place of == at line 110
known_mines_AtLeast(s) ==
    IF s.count >= Cardinality(s.cells) /\ s.count # 0 THEN s.cells ELSE {}

\* Sentence.known_mines
known_mines(s) ==
    IF s.count = Cardinality(s.cells) /\ s.count # 0 THEN s.cells ELSE {}

\* Sentence.known_safes
known_safes(s) == IF s.count = 0 THEN s.cells ELSE {}

\* a slip in Sentence.mark_mine: line 130, the decrement, is missing
Sentence_mark_mine_NoDecrement(s, c) ==
    IF c \in s.cells THEN Sentence(s.cells \ {c}, s.count) ELSE s

\* Sentence.mark_mine
Sentence_mark_mine(s, c) ==
    IF c \in s.cells THEN Sentence(s.cells \ {c}, s.count - 1) ELSE s

\* a slip in Sentence.mark_safe: line 139, the removal, is missing
Sentence_mark_safe_NoRemove(s, c) == s

\* a slip in Sentence.mark_safe: the count is lowered as for a mine
Sentence_mark_safe_Decrement(s, c) ==
    IF c \in s.cells THEN Sentence(s.cells \ {c}, s.count - 1) ELSE s

\* Sentence.mark_safe
Sentence_mark_safe(s, c) ==
    IF c \in s.cells THEN Sentence(s.cells \ {c}, s.count) ELSE s

\* ------------------------------------------------------------ Minesweeper
\* the 3 x 3 block around c without c, as the two range() loops walk it
Around(c) ==
    {d \in (c[1] - 1 .. c[1] + 1) \X (c[2] - 1 .. c[2] + 1) : d # c}

\* Minesweeper.nearby_mines
nearby_mines(c) == Cardinality({d \in Around(c) : d \in Cells /\ d \in board})

\* ---------------------------------------------------------- MinesweeperAI
\* "for sentence in self.knowledge: sentence.mark_mine(cell)"
KnowledgeMarkMine(kn, c) == [i \in 1 .. Len(kn) |-> Sentence_mark_mine(kn[i], c)]

\* "for sentence in self.knowledge: sentence.mark_safe(cell)"
KnowledgeMarkSafe(kn, c) == [i \in 1 .. Len(kn) |-> Sentence_mark_safe(kn[i], c)]

\* MinesweeperAI.mark_mine
mark_mine(c) ==
    /\ mines' = mines \cup {c}
    /\ knowledge' = KnowledgeMarkMine(knowledge, c)
    /\ UNCHANGED safes

\* a slip in MinesweeperAI.mark_safe: the cell is also taken out of mines
mark_safe_Unconfirm(c) ==
    /\ safes' = safes \cup {c}
    /\ mines' = mines \ {c}
    /\ knowledge' = KnowledgeMarkSafe(knowledge, c)

\* MinesweeperAI.mark_safe
mark_safe(c) ==
    /\ safes' = safes \cup {c}
    /\ knowledge' = KnowledgeMarkSafe(knowledge, c)
    /\ UNCHANGED mines

\* "x in list" for a list of sentences, by Sentence.__eq__
InList(s, list) == \E i \in 1 .. Len(list) : SentenceEq(list[i], s)

\* a slip in line 205: the neighbours in safes are not left out
Undetermined_IgnoreSafes(c, sf) ==
    {d \in Around(c) : d \in Cells /\ d \notin mines}

\* add_knowledge, lines 199-208: the undetermined in-grid neighbours of c,
\* given the safes after mark_safe(c)
Undetermined(c, sf) ==
    {d \in Around(c) : d \in Cells /\ d \notin sf /\ d \notin mines}

\* a slip in lines 207-208: the neighbours in mines are not taken off count
Adjusted_NoDecrement(c, n, sf) == n

\* add_knowledge, lines 207-208: count less one for every neighbour in mines
\* (the elif is taken when the neighbour is in safes or mines, and in mines)
Adjusted(c, n, sf) ==
    n - Cardinality({d \in Around(c) :
                        /\ d \in Cells
                        /\ ~(d \notin sf /\ d \notin mines)
                        /\ d \in mines})

\* forced, after a sentence s is appended (lines 217 and 245): a sentence with
\* count 0 settles its cells as safe, one with as many mines as cells, as mines
Settled(f, s) ==
    [safe |-> f.safe \cup (IF s.count = 0 THEN s.cells ELSE {}),
     mine |-> f.mine \cup (IF s.count = Cardinality(s.cells) /\ s.count > 0
                           THEN s.cells ELSE {})]

\* forced, after the sentences new[k], new[k+1], ... are appended (line 245)
RECURSIVE SettledAll(_, _, _)
SettledAll(f, new, k) ==
    IF k > Len(new) THEN f ELSE SettledAll(Settled(f, new[k]), new, k + 1)

\* line 239: the condition of the subset rule
SubsetPair(s1, s2) == ~SentenceEq(s1, s2) /\ s1.cells \subseteq s2.cells

\* a slip in line 241: the counts are subtracted the wrong way round
Inferred_Swapped(s1, s2) == Sentence(s2.cells \ s1.cells, s1.count - s2.count)

\* lines 240-242
Inferred(s1, s2) == Sentence(s2.cells \ s1.cells, s2.count - s1.count)

\* lines 238-245: newSentences after the inner loop "for sentence2 in
\* self.knowledge" from kn[j] on, with sentence1 = kn[i]
RECURSIVE InferInner(_, _, _, _)
InferInner(kn, i, j, new) ==
    IF j > Len(kn) THEN new
    ELSE IF /\ SubsetPair(kn[i], kn[j])
            /\ ~InList(Inferred(kn[i], kn[j]), kn)
            /\ ~InList(Inferred(kn[i], kn[j]), new)
    THEN InferInner(kn, i, j + 1, Append(new, Inferred(kn[i], kn[j])))
    ELSE InferInner(kn, i, j + 1, new)

\* lines 236-245: newSentences after the outer loop "for sentence1 in
\* self.knowledge" from kn[i] on; next is newSentences when the inner loop
\* of kn[i] is over, worked out before the loop of kn[i+1] begins
RECURSIVE InferFrom(_, _, _)
InferFrom(kn, i, new) ==
    IF i > Len(kn) THEN new
    ELSE LET next == InferInner(kn, i, 1, new)
         IN  IF Len(next) = Len(new) THEN InferFrom(kn, i + 1, new)
             ELSE InferFrom(kn, i + 1, next)

newSentences(kn) == InferFrom(kn, 1, <<>>)

Abs(n) == IF n < 0 THEN -n ELSE n

\* MinesweeperAI.mark_safe for every cell of S, as one step
MarkAllSafe(st, S) ==
    [mines |-> st.mines,
     safes |-> st.safes \cup S,
     knowledge |-> [i \in 1 .. Len(st.knowledge) |->
                      Sentence(st.knowledge[i].cells \ S, st.knowledge[i].count)]]

\* MinesweeperAI.mark_mine for every cell of S, as one step
MarkAllMine(st, S) ==
    [mines |-> st.mines \cup S,
     safes |-> st.safes,
     knowledge |-> [i \in 1 .. Len(st.knowledge) |->
                      Sentence(st.knowledge[i].cells \ S,
                               st.knowledge[i].count
                                 - Cardinality(st.knowledge[i].cells \cap S))]]

\* lines 228-234 from the sentence at i on: its known_mines() at once, then
\* its known_safes() at once
RECURSIVE ScanFrom(_, _)
ScanFrom(st, i) ==
    IF i > Len(st.knowledge) THEN st
    ELSE LET st1 == MarkAllMine(st, known_mines(st.knowledge[i]))
             st2 == MarkAllSafe(st1, known_safes(st1.knowledge[i]))
         IN  ScanFrom(st2, i + 1)

\* lines 224-246: the loop from a pass on, for at most fuel passes and while
\* the counts stay within CountCap; returned tells whether the loop ended
RECURSIVE Closure(_, _)
Closure(st, fuel) ==
    LET st1 == ScanFrom(st, 1)
        new == newSentences(st1.knowledge)
    IN  IF new = <<>>
        THEN [returned |-> TRUE, mines |-> st1.mines, safes |-> st1.safes,
              knowledge |-> st1.knowledge]
        ELSE IF fuel = 0 \/ \E i \in 1 .. Len(new) : Abs(new[i].count) > CountCap
        THEN [returned |-> FALSE]
        ELSE Closure([st1 EXCEPT !.knowledge = st1.knowledge \o new], fuel - 1)

\* lines 209-246 from the state st after mark_safe(cell), with the neighbours
\* nb and the count k of lines 202-208
WholeCall(st, nb, k) ==
    LET st1 == IF k = 0 THEN MarkAllSafe(st, nb)
               ELSE IF k = Cardinality(nb) /\ k > 0 THEN MarkAllMine(st, nb)
               ELSE st
    IN  Closure([st1 EXCEPT !.knowledge = Append(st1.knowledge, Sentence(nb, k))],
                MaxPass)

\* add_knowledge, lines 199-217, on the engine state st: mark_safe(c), the
\* neighbours and the count, the neighbour broadcast, the new sentence
Observed(st, c, n) ==
    LET st0 == MarkAllSafe(st, {c})
        nb == {d \in Around(c) : d \in Cells /\ d \notin st0.safes /\ d \notin st0.mines}
        k == n - Cardinality({d \in Around(c) : d \in Cells /\ d \in st0.mines})
        st1 == IF k = 0 THEN MarkAllSafe(st0, nb)
               ELSE IF k = Cardinality(nb) /\ k > 0 THEN MarkAllMine(st0, nb)
               ELSE st0
    IN  [st1 EXCEPT !.knowledge = Append(st1.knowledge, Sentence(nb, k))]

\* lines 253-256: all_safes and all_mines
all_safes(kn) == UNION {known_safes(kn[i]) : i \in 1 .. Len(kn)}

all_mines(kn) == UNION {known_mines(kn[i]) : i \in 1 .. Len(kn)}

\* line 266: the test of the list comprehension
HasCells(s) == Cardinality(s.cells) > 0

\* lines 270-281: the inner loop "for sentence2 in self.knowledge" from the
\* j-th sentence on, with sentence1 the i-th, on r = [st, new]: the engine
\* state (the marks of lines 275-279 change the sentences the later pairs
\* read) and new_sentences so far
RECURSIVE AltInferInner(_, _, _)
AltInferInner(r, i, j) ==
    IF j > Len(r.st.knowledge) THEN r
    ELSE LET s1 == r.st.knowledge[i]
             s2 == r.st.knowledge[j]
             inferred_cells == s2.cells \ s1.cells
             inferred_count == s2.count - s1.count
             st1 == IF inferred_count = 0 THEN MarkAllSafe(r.st, inferred_cells)
                    ELSE IF inferred_count = Cardinality(inferred_cells)
                            /\ inferred_count > 0
                    THEN MarkAllMine(r.st, inferred_cells)
                    ELSE r.st
             inferred_sentence == Sentence(inferred_cells, inferred_count)
         IN  IF ~SubsetPair(s1, s2) THEN AltInferInner(r, i, j + 1)
             ELSE IF /\ ~InList(inferred_sentence, st1.knowledge)
                     /\ ~InList(inferred_sentence, r.new)
             THEN AltInferInner([st |-> st1, new |-> Append(r.new, inferred_sentence)],
                                i, j + 1)
             ELSE AltInferInner([st |-> st1, new |-> r.new], i, j + 1)

\* lines 269-281: the outer loop "for sentence1 in self.knowledge" from the
\* i-th sentence on
RECURSIVE AltInferFrom(_, _)
AltInferFrom(r, i) ==
    IF i > Len(r.st.knowledge) THEN r
    ELSE AltInferFrom(AltInferInner(r, i, 1), i + 1)

\* lines 248-287, the commented-out loop, from a pass on: for at most fuel
\* passes and while the counts stay within CountCap
RECURSIVE AltClosure(_, _)
AltClosure(st, fuel) ==
    LET st1 == MarkAllMine(MarkAllSafe(st, all_safes(st.knowledge)),
                           all_mines(st.knowledge))
        st2 == [st1 EXCEPT !.knowledge = SelectSeq(st1.knowledge, HasCells)]
        r == AltInferFrom([st |-> st2, new |-> <<>>], 1)
    IN  IF r.new = <<>>
        THEN [returned |-> TRUE, mines |-> r.st.mines, safes |-> r.st.safes,
              knowledge |-> r.st.knowledge]
        ELSE IF fuel = 0 \/ \E i \in 1 .. Len(r.new) : Abs(r.new[i].count) > CountCap
        THEN [returned |-> FALSE]
        ELSE AltClosure([r.st EXCEPT !.knowledge = r.st.knowledge \o r.new], fuel - 1)

\* add_knowledge(c, n) with the loop of lines 248-287 in place of lines 224-246
AltCall(a, c, n) ==
    AltClosure(Observed([mines |-> a.mines, safes |-> a.safes, knowledge |-> a.knowledge],
                        c, n),
               MaxPass)

\* add_knowledge, lines 196-208: moves_made.add, mark_safe(cell), neighbours
add_knowledge(c, n) ==
    /\ pc = "idle"
    /\ calls' = calls + 1
    /\ moves_made' = moves_made \cup {c}
    /\ mark_safe(c)
    /\ cell' = c
    /\ neighbors' = Undetermined(c, safes')
    /\ count' = Adjusted(c, n, safes')
    /\ todo' = IF count' = 0 \/ (count' = Cardinality(neighbors') /\ count' > 0)
               THEN neighbors' ELSE {}
    /\ pc' = "neighbors"
    /\ move' = None
    /\ asked' = "none"
    /\ reported' = n
    /\ alt' = IF alt.returned THEN AltCall(alt, c, n) ELSE alt
    /\ expected' = WholeCall([mines |-> mines, safes |-> safes', knowledge |-> knowledge'],
                              neighbors', count')
    /\ forced' = [safe |-> {}, mine |-> {}]
    /\ UNCHANGED <<board, idx>>

\* a slip in lines 209-214: the loop over neighbors ends after one iteration
MarkNeighbor_Break ==
    /\ pc = "neighbors"
    /\ \E nei \in todo :
          /\ IF count = 0 THEN mark_safe(nei) ELSE mark_mine(nei)
          /\ todo' = {}
    /\ UNCHANGED <<atcall, forced, board, moves_made, pc, cell, count, neighbors, idx, move, asked, calls>>

\* add_knowledge, lines 209-214: one iteration of "for nei in neighbors"
MarkNeighbor ==
    /\ pc = "neighbors"
    /\ \E nei \in todo :
          /\ IF count = 0 THEN mark_safe(nei) ELSE mark_mine(nei)
          /\ todo' = todo \ {nei}
    /\ UNCHANGED <<atcall, forced, board, moves_made, pc, cell, count, neighbors, idx, move, asked, calls>>

\* add_knowledge, lines 216-217 and 224-226: append the sentence, enter the loop
AppendSentence ==
    /\ pc = "neighbors"
    /\ todo = {}
    /\ knowledge' = Append(knowledge, Sentence(neighbors, count))
    /\ forced' = Settled(forced, Sentence(neighbors, count))
    /\ idx' = 1
    /\ pc' = "scan"
    /\ UNCHANGED <<atcall, board, moves_made, mines, safes, cell, count, neighbors, todo,
                   move, asked, calls>>

\* after the sentence at idx: the next sentence, or the subset step
Advance ==
    /\ idx' = idx + 1
    /\ pc' = IF idx < Len(knowledge) THEN "scan" ELSE "infer"
    /\ todo' = {}

\* line 232: "if sentence.known_safes()" and the copy of line 233
TestSafes ==
    IF known_safes(knowledge[idx]) # {}
    THEN /\ todo' = known_safes(knowledge[idx])
         /\ pc' = "mark_safes"
         /\ UNCHANGED idx
    ELSE Advance

\* lines 228-230: "for sentence in self.knowledge", "if sentence.known_mines()"
ScanSentence ==
    /\ pc = "scan"
    /\ IF known_mines(knowledge[idx]) # {}
       THEN /\ todo' = known_mines(knowledge[idx])
            /\ pc' = "mark_mines"
            /\ UNCHANGED idx
       ELSE TestSafes
    /\ UNCHANGED <<atcall, forced, board, moves_made, mines, safes, knowledge, cell, count,
                   neighbors, move, asked, calls>>

\* lines 230-231: one iteration of "for cell in sentence.known_mines().copy()"
ScanMarkMine ==
    /\ pc = "mark_mines"
    /\ \E c \in todo :
          /\ mark_mine(c)
          /\ todo' = todo \ {c}
    /\ UNCHANGED <<atcall, forced, board, moves_made, pc, cell, count, neighbors, idx, move, asked, calls>>

\* the loop of line 230 is over: line 232
ScanMinesDone ==
    /\ pc = "mark_mines"
    /\ todo = {}
    /\ TestSafes
    /\ UNCHANGED <<atcall, forced, board, moves_made, mines, safes, knowledge, cell, count,
                   neighbors, move, asked, calls>>

\* lines 233-234: one iteration of "for cell in sentence.known_safes().copy()"
ScanMarkSafe ==
    /\ pc = "mark_safes"
    /\ \E c \in todo :
          /\ mark_safe(c)
          /\ todo' = todo \ {c}
    /\ UNCHANGED <<atcall, forced, board, moves_made, pc, cell, count, neighbors, idx, move, asked, calls>>

\* the loop of line 233 is over: the next sentence
ScanSafesDone ==
    /\ pc = "mark_safes"
    /\ todo = {}
    /\ Advance
    /\ UNCHANGED <<atcall, forced, board, moves_made, mines, safes, knowledge, cell, count,
                   neighbors, move, asked, calls>>

\* lines 236-246 and the test of line 225: the subset step of one pass
\* (Python's counts are unbounded: the pass is modelled while they stay within
\* CountCap)
Infer ==
    /\ pc = "infer"
    /\ LET new == newSentences(knowledge) IN
          /\ \A i \in 1 .. Len(new) : Abs(new[i].count) <= CountCap
          /\ knowledge' = knowledge \o new
          /\ forced' = SettledAll(forced, new, 1)
          /\ pc' = IF new # <<>> THEN "scan" ELSE "idle"
    /\ idx' = 1
    /\ UNCHANGED <<atcall, board, moves_made, mines, safes, cell, count, neighbors, todo,
                   move, asked, calls>>

\* a slip in make_safe_move: line 299, the test of moves_made, is missing
make_safe_move_AnySafe ==
    /\ pc = "idle"
    /\ IF safes # {}
       THEN \E c \in safes : move' = c
       ELSE move' = None
    /\ asked' = "make_safe_move"
    /\ UNCHANGED <<atcall, forced, board, moves_made, mines, safes, knowledge, pc, cell, count,
                   neighbors, idx, todo, calls>>

\* MinesweeperAI.make_safe_move: any cell of safes not in moves_made, else None
make_safe_move ==
    /\ pc = "idle"
    /\ IF safes \ moves_made # {}
       THEN \E c \in safes \ moves_made : move' = c
       ELSE move' = None
    /\ asked' = "make_safe_move"
    /\ UNCHANGED <<atcall, forced, board, moves_made, mines, safes, knowledge, pc, cell, count,
                   neighbors, idx, todo, calls>>

\* a slip in make_random_move: line 311 does not take the mines out
make_random_move_IgnoreMines ==
    /\ pc = "idle"
    /\ IF Cells \ moves_made # {}
       THEN \E c \in Cells \ moves_made : move' = c
       ELSE move' = None
    /\ asked' = "make_random_move"
    /\ UNCHANGED <<atcall, forced, board, moves_made, mines, safes, knowledge, pc, cell, count,
                   neighbors, idx, todo, calls>>

\* MinesweeperAI.make_random_move: random.choice among the cells of the grid
\* that are in neither moves_made nor mines; without one the function ends
\* without a return statement, which returns None
make_random_move ==
    /\ pc = "idle"
    /\ LET available_moves == (Cells \ moves_made) \ mines IN
          IF available_moves # {}
          THEN \E c \in available_moves : move' = c
          ELSE move' = None
    /\ asked' = "make_random_move"
    /\ UNCHANGED <<atcall, forced, board, moves_made, mines, safes, knowledge, pc, cell, count,
                   neighbors, idx, todo, calls>>

\* the steps of a running call
Step ==
    \/ MarkNeighbor
    \/ AppendSentence
    \/ ScanSentence
    \/ ScanMarkMine
    \/ ScanMinesDone
    \/ ScanMarkSafe
    \/ ScanSafesDone
    \/ Infer

\* MinesweeperAI.__init__ without knowledge; no call has been made
InitFields ==
    /\ moves_made = {}
    /\ mines = {}
    /\ safes = {}
    /\ pc = "idle"
    /\ cell = None
    /\ count = 0
    /\ neighbors = {}
    /\ idx = 1
    /\ todo = {}
    /\ move = None
    /\ asked = "none"
    /\ calls = 0
    /\ reported = 0
    /\ alt = [returned |-> TRUE, mines |-> {}, safes |-> {}, knowledge |-> <<>>]
    /\ expected = [returned |-> FALSE]
    /\ forced = [safe |-> {}, mine |-> {}]

\* MinesweeperAI.__init__
InitAI == InitFields /\ knowledge = <<>>

\* ------------------------------------------- any caller: any cell, any count
Init == board = {} /\ InitAI

Observe ==
    /\ calls < MaxObserve
    /\ \E c \in InputCells, n \in 0 .. MaxCount : add_knowledge(c, n)

Next == Observe \/ make_safe_move \/ make_random_move \/ Step

Spec == Init /\ [][Next]_vars

\* a call that has started runs on: the code is one sequential function
FairSpec == Spec /\ WF_vars(Step)

\* ----- any caller, over more calls: any cell, the counts 1 .. MaxCount - 1
Probe ==
    /\ calls < MaxProbe
    /\ \E c \in InputCells, n \in 1 .. MaxCount - 1 : add_knowledge(c, n)

NextProbe == Probe \/ make_safe_move \/ make_random_move \/ Step

SpecProbe == Init /\ [][NextProbe]_vars

\* ------------- a caller that reports what a Minesweeper board shows
InitBoard == board \in SUBSET Cells /\ InitAI

Reveal ==
    /\ calls < MaxReveal
    /\ \E c \in Cells \ board : add_knowledge(c, nearby_mines(c))

NextBoard == Reveal \/ make_safe_move \/ make_random_move \/ Step

SpecBoard == InitBoard /\ [][NextBoard]_vars

FairSpecBoard == SpecBoard /\ WF_vars(Step)

\* ------------------- one sentence, any cells and count: the two known_* calls
\* Sentence(cells, count) for any set of grid cells and any count from -1 to
\* one more than the number of cells of the grid
InitSentence ==
    /\ InitFields
    /\ board = {}
    /\ \E cs \in SUBSET Cells, n \in -1 .. Height * Width + 1 :
          knowledge = <<Sentence(cs, n)>>

\* a call of Sentence.known_mines on the sentence; todo is the set returned
KnownMines ==
    /\ todo' = known_mines(knowledge[1])
    /\ asked' = "known_mines"
    /\ UNCHANGED <<atcall, forced, board, moves_made, mines, safes, knowledge, pc, cell, count,
                   neighbors, idx, move, calls>>

\* a call of Sentence.known_safes on the sentence; todo is the set returned
KnownSafes ==
    /\ todo' = known_safes(knowledge[1])
    /\ asked' = "known_safes"
    /\ UNCHANGED <<atcall, forced, board, moves_made, mines, safes, knowledge, pc, cell, count,
                   neighbors, idx, move, calls>>

NextSentence == KnownMines \/ KnownSafes

SpecSentence == InitSentence /\ [][NextSentence]_vars

\* ==================================================================== claims
\* the sentences held
Held == {knowledge[i] : i \in 1 .. Len(knowledge)}

\* C1 (soundness, under SpecBoard): when every observed cell is not a mine of
\* the board and every reported count is the board's count of mines around it,
\* every cell in mines is a mine of the board, no cell in safes is one, and
\* make_safe_move never returns one.
C1_Soundness ==
    /\ mines \subseteq board
    /\ safes \cap board = {}
    /\ (asked = "make_safe_move" /\ move # None) => move \notin board

\* a call has returned with a mine confirmed, and make_safe_move returned a cell
C1_Witness ==
    /\ pc = "idle"
    /\ mines # {}
    /\ asked = "make_safe_move"
    /\ move \in safes \ moves_made

\* C2 (fixed point at return, under SpecBoard): when a call has returned, no
\* held sentence has a non-empty known_mines() or known_safes() and the subset
\* rule yields no new sentence, so that another closure pass changes nothing.
C2_FixedPointAtReturn ==
    pc = "idle" =>
        /\ \A s \in Held : known_mines(s) = {} /\ known_safes(s) = {}
        /\ newSentences(knowledge) = <<>>

\* C3 (disjointness, under Spec): after every call, for any in-range cells and
\* any counts, no cell is in both mines and safes.
C3_Disjoint ==
    (pc = "idle" /\ moves_made \subseteq Cells) => mines \cap safes = {}

C5_CountBounds ==
    \A s \in Held : 0 <= s.count /\ s.count <= Cardinality(s.cells)

\* a mine has just been broadcast inside the closure loop into a knowledge
\* that holds a sentence derived by the subset rule and an undecided sentence
C5_Witness ==
    /\ pc = "mark_mines"
    /\ todo = {}
    /\ Len(knowledge) > calls
    /\ \E s \in Held : s.cells # {} /\ s.count > 0

\* C6 (purge, under Spec): when a call has returned, no cell of any held
\* sentence is in mines or in safes.
C6_Purged ==
    pc = "idle" => \A s \in Held : s.cells \cap (mines \cup safes) = {}

\* a call has returned whose observation sentence was appended with all its
\* cells already broadcast as safe, while another sentence still has cells
C6_Witness ==
    /\ pc = "idle"
    /\ neighbors # {}
    /\ count = 0
    /\ \E s \in Held : s.cells # {}

\* C7 (subset closure, under Spec): when a call has returned, for all held
\* sentences A and B that differ and have A.cells within B.cells, a sentence
\* with the cells B.cells - A.cells and the count B.count - A.count is held,
\* or all of those cells are in mines or safes.
C7_SubsetClosed ==
    pc = "idle" =>
        \A a \in Held, b \in Held :
            (a # b /\ a.cells \subseteq b.cells) =>
                \/ [cells |-> b.cells \ a.cells, count |-> b.count - a.count] \in Held
                \/ (b.cells \ a.cells) \subseteq (mines \cup safes)

\* a call has returned holding A and B with A.cells a proper, non-empty part
\* of B.cells
C7_Witness ==
    /\ pc = "idle"
    /\ \E a \in Held, b \in Held :
          /\ a.cells # {}
          /\ a.cells \subseteq b.cells
          /\ a.cells # b.cells

\* C8 (monotonicity, under Spec): in every step, of a call or between calls,
\* mines, safes and moves_made keep all their cells.
C8_Monotone ==
    [][/\ mines \subseteq mines'
       /\ safes \subseteq safes'
       /\ moves_made \subseteq moves_made']_vars

\* a second call is running, with a cell it broadcast as a mine and cells
\* that an earlier call made safe
C8_Witness ==
    /\ calls = 2
    /\ pc = "scan"
    /\ mines # {}
    /\ safes \ {cell} # {}

\* C9 (out-of-range rejection, under Spec): a call whose cell is outside the
\* grid leaves moves_made, safes, mines and knowledge as they were.
C9_OutOfRangeRejected ==
    [][(calls' # calls /\ cell' \notin Cells) =>
          /\ moves_made' = moves_made
          /\ safes' = safes
          /\ mines' = mines
          /\ knowledge' = knowledge]_vars

\* C10 (invariant violations are fatal, under Spec): the code has no error
\* path, so what is in the state was stored silently: no held sentence has a
\* count below 0 or above its number of cells, and no cell is in both mines
\* and safes.
C10_NoInvalidStored ==
    /\ \A i \in 1 .. Len(knowledge) :
          /\ knowledge[i].count >= 0
          /\ knowledge[i].count <= Cardinality(knowledge[i].cells)
    /\ mines \cap safes = {}

\* C11 (make_safe_move, under Spec): a call of make_safe_move returns a cell
\* that is in safes and not in moves_made when there is one and None when
\* there is none, and leaves moves_made, safes, mines and knowledge as they
\* were.
C11_SafeMove ==
    [][(pc = "idle" /\ asked' = "make_safe_move") =>
          /\ IF safes \ moves_made # {}
             THEN move' \in safes \ moves_made
             ELSE move' = None
          /\ moves_made' = moves_made
          /\ safes' = safes
          /\ mines' = mines
          /\ knowledge' = knowledge]_vars

\* make_safe_move returned None although safes holds cells: all are moves made
C11_Witness ==
    /\ asked = "make_safe_move"
    /\ move = None
    /\ safes # {}
    /\ mines # {}

\* C12 (make_random_move, under Spec): a call of make_random_move returns a
\* cell of the grid that is in neither moves_made nor mines when there is one,
\* and None when moves_made and mines together cover the grid.
C12_RandomMove ==
    [][(pc = "idle" /\ asked' = "make_random_move") =>
          IF \E c \in Cells : c \notin moves_made /\ c \notin mines
          THEN move' \in Cells /\ move' \notin moves_made /\ move' \notin mines
          ELSE move' = None]_vars

\* make_random_move returned None: every cell of the grid is a move made or a
\* confirmed mine
C12_Witness ==
    /\ asked = "make_random_move"
    /\ move = None
    /\ calls > 0

\* C13 (known_mines and known_safes, under SpecSentence): for any cells and
\* count, known_mines() returns the cells when count is their number and is
\* not 0, and the empty set otherwise; known_safes() returns the cells when
\* count is 0, and the empty set otherwise; the two are never both non-empty.
C13_Known ==
    LET s == knowledge[1] IN
    /\ asked = "known_mines" =>
          todo = IF s.count = Cardinality(s.cells) /\ s.count # 0 THEN s.cells ELSE {}
    /\ asked = "known_safes" =>
          todo = IF s.count = 0 THEN s.cells ELSE {}
    /\ ~(known_mines(s) # {} /\ known_safes(s) # {})

\* known_mines() returned the cells of a sentence with two cells or more
C13_Witness ==
    /\ asked = "known_mines"
    /\ Cardinality(todo) >= 2
    /\ todo = knowledge[1].cells

\* d is one of the 8 cells around c
Adjacent(c, d) ==
    /\ d # c
    /\ d[1] - c[1] \in {-1, 0, 1}
    /\ d[2] - c[2] \in {-1, 0, 1}

\* C14 (observation sentence, under Spec): a call add_knowledge(cell, count)
\* appends exactly one sentence for the observation, trivial or not, before
\* the closure loop; its cells are the cells of the grid around cell that are
\* in neither mines nor safes when the call is made, and its count is the
\* reported count less the number of cells of the grid around cell in mines.
C14_ObservationSentence ==
    [][/\ calls' = calls + 1 =>
             /\ neighbors' = {d \in Cells : /\ Adjacent(cell', d)
                                            /\ d \notin mines
                                            /\ d \notin safes}
             /\ count' = reported'
                           - Cardinality({d \in Cells : Adjacent(cell', d) /\ d \in mines})
             /\ Len(knowledge') = Len(knowledge)
       /\ pc = "neighbors" =>
             /\ neighbors' = neighbors
             /\ count' = count
             /\ IF pc' = "scan"
                THEN knowledge' = Append(knowledge, [cells |-> neighbors, count |-> count])
                ELSE Len(knowledge') = Len(knowledge)]_vars

\* the observation sentence has just been appended: it has cells, and a
\* neighbour already in mines was taken off the reported count
C14_Witness ==
    /\ pc = "scan"
    /\ Len(knowledge) = calls
    /\ knowledge[Len(knowledge)] = [cells |-> neighbors, count |-> count]
    /\ neighbors # {}
    /\ count < reported

\* this step broadcast c as safe: c joins safes, every held sentence loses c
\* and keeps its count, and the same broadcast again would change nothing
BroadcastSafe(c) ==
    /\ safes' = safes \cup {c}
    /\ mines' = mines
    /\ Len(knowledge') = Len(knowledge)
    /\ \A i \in 1 .. Len(knowledge) :
          /\ knowledge'[i].cells = knowledge[i].cells \ {c}
          /\ knowledge'[i].count = knowledge[i].count
    /\ safes' \cup {c} = safes'
    /\ KnowledgeMarkSafe(knowledge', c) = knowledge'

\* this step broadcast c as a mine: c joins mines, exactly the held sentences
\* with c lose it and one of their count, the others are as they were, and the
\* same broadcast again would change nothing
BroadcastMine(c) ==
    /\ mines' = mines \cup {c}
    /\ safes' = safes
    /\ Len(knowledge') = Len(knowledge)
    /\ \A i \in 1 .. Len(knowledge) :
          IF c \in knowledge[i].cells
          THEN /\ knowledge'[i].cells = knowledge[i].cells \ {c}
               /\ knowledge'[i].count = knowledge[i].count - 1
          ELSE knowledge'[i] = knowledge[i]
    /\ mines' \cup {c} = mines'
    /\ KnowledgeMarkMine(knowledge', c) = knowledge'

\* C15 (broadcast effect, under Spec): every mark_safe(c) and mark_mine(c) the
\* engine makes (of the revealed cell, of a neighbour after the observation,
\* of a cell of known_mines() or known_safes() in the loop) has the effect of
\* BroadcastSafe(c), respectively BroadcastMine(c).
C15_Broadcast ==
    [][/\ calls' = calls + 1 => BroadcastSafe(cell')
       /\ (pc \in {"neighbors", "mark_mines", "mark_safes"} /\ todo' # todo) =>
             \E c \in todo :
                /\ todo' = todo \ {c}
                /\ IF pc = "mark_safes" \/ (pc = "neighbors" /\ count = 0)
                   THEN BroadcastSafe(c)
                   ELSE BroadcastMine(c)]_vars

\* in the middle of the neighbour broadcast of an observation whose neighbours
\* are all mines: one of them has been broadcast to the sentences held, which
\* still have cells, and another is still to come
C15_Witness ==
    /\ pc = "neighbors"
    /\ count > 0
    /\ todo # {}
    /\ \E c \in neighbors \ todo : c \in mines
    /\ \E i \in 1 .. Len(knowledge) : knowledge[i].cells # {}

\* C16 (forced sentences are resolved, under SpecProbe): when a call has
\* returned, the cells of every sentence it appended with count 0 are in
\* safes, and the cells of every sentence it appended with count equal to its
\* number of cells, more than 0, are in mines.
C16_ForcedResolved ==
    pc = "idle" => forced.safe \subseteq safes /\ forced.mine \subseteq mines

\* C17 (bounded knowledge under a consistent feed, under FairSpecBoard): every
\* sentence the subset step of a call appends has its cells in the grid and a
\* count from 0 to its number of cells, and every call that has begun returns.
C17_BoundedClosure ==
    /\ [][pc = "infer" =>
             \A i \in Len(knowledge) + 1 .. Len(knowledge') :
                /\ knowledge'[i].cells \subseteq Cells
                /\ knowledge'[i].count >= 0
                /\ knowledge'[i].count <= Cardinality(knowledge'[i].cells)]_vars
    /\ (pc \in {"neighbors", "scan", "mark_mines", "mark_safes", "infer"}) ~> (pc = "idle")

\* a call of a consistent feed has returned, the subset step has derived two
\* sentences at least, and a sentence with cells is still held
C17_Witness ==
    /\ pc = "idle"
    /\ calls >= 2
    /\ Len(knowledge) >= calls + 2
    /\ \E i \in 1 .. Len(knowledge) : knowledge[i].cells # {}

\* C18 (order independence, under Spec): in whatever order the steps of a call
\* broadcast the neighbours of the observation and the cells of known_mines()
\* and known_safes() in the loop, the call returns with the mines, safes and
\* knowledge of WholeCall, where every such set is broadcast at once; so two
\* runs of the same observations return in the same state.
C18_OrderIndependent ==
    (pc = "idle" /\ calls > 0) =>
        /\ expected.returned
        /\ mines = expected.mines
        /\ safes = expected.safes
        /\ knowledge = expected.knowledge
        /\ cell \in moves_made

\* a call has returned in whose loop a sentence derived by the subset rule
\* had two cells or more to broadcast as mines, in either order
C18_Witness ==
    /\ pc = "idle"
    /\ expected.returned
    /\ Len(knowledge) > calls
    /\ Cardinality(forced.mine \ neighbors) >= 2

\* C19 (the closure variants agree, under SpecBoard): when a call has returned,
\* mines and safes are those of the engine alt, which was given the same calls
\* and ends add_knowledge with the commented-out loop.
C19_VariantsAgree ==
    (pc = "idle" /\ alt.returned) => mines = alt.mines /\ safes = alt.safes

=============================================================================
